---------------------------- MODULE Spec2Model ----------------------------
(***************************************************************************)
(* AR placement and gesture handling of CarVisualizer3D (src/main.js; the  *)
(* older variant src/unnamed/part_000 has the same render / onSelect and   *)
(* the same pinch handlers, without the one-finger rotation and without    *)
(* the step-rotate buttons).                                               *)
(*                                                                         *)
(* The module-level variables of main.js are the state.  Each event the    *)
(* browser can deliver (an XR frame, the session's end event, the          *)
(* settlement of one of the two chained promises, select, touchstart,      *)
(* touchmove, a click on a rotate button, the GLTF load callback) is one   *)
(* action.  The browser is the environment: it starts and ends sessions,   *)
(* settles promises at any later time, and reports touches.                *)
(*                                                                         *)
(* Numbers.  Angles are integers in milliradians (0.005 rad = 5,           *)
(* 0.3 rad = 300); scale components are exact fractions <<num, den>> in    *)
(* lowest terms.  Arithmetic is exact: IEEE-754 rounding is not modelled.  *)
(* A 4x4 rigid transform is the record [pos, rot] of its translation and   *)
(* of the Euler angles <<x, y, z>> of its rotation part.                   *)
(***************************************************************************)
EXTENDS Integers, Sequences, FiniteSets

(* ------------------------------ bounds --------------------------------- *)

MaxSessions == 2

MaxResults == 2

MaxTouches == 2

\* sessions followed when placement and gestures run together
MaxSessionsComposed == 1

\* largest |yaw| (milliradians) the model follows
MaxYaw == 450

\* largest numerator and denominator of a scale component the model follows
MaxScaleNum == 30

MaxScaleDen == 5

(* ------------------------------ poses ---------------------------------- *)

\* new THREE.Matrix4(): the reticle's matrix before any hit
IdentityPose == [pos |-> <<0, 0, 0>>, rot |-> <<0, 0, 0>>]

PoseA == [pos |-> <<1, 0, 2>>, rot |-> <<0, 150, 0>>]

PoseB == [pos |-> <<3, 1, 0>>, rot |-> <<100, -150, 200>>]

\* the poses hit.getPose(referenceSpace).transform.matrix can report
HitPoses == {PoseA, PoseB}

RECURSIVE SeqsUpTo(_, _)
SeqsUpTo(S, n) ==
    IF n = 0 THEN {<<>>}
    ELSE LET shorter == SeqsUpTo(S, n - 1)
         IN  shorter \cup {Append(q, e) : q \in {r \in shorter : Len(r) = n - 1}, e \in S}

\* what frame.getHitTestResults can return
ResultLists == SeqsUpTo(HitPoses, MaxResults)

VARIABLES
    session,                 \* renderer.xr.getSession(): 0 = none, else its number
    sessionsStarted,         \* how many sessions the browser has started
    hitTestSource,           \* 0 = null, else the session the source was made for
    hitTestSourceRequested,  \* the latch
    requests,                \* the acquisitions issued: [session, stage]
    endListeners,            \* sessions carrying the 'end' listener of render
    reticleVisible,          \* reticle.visible
    reticleMatrix,           \* reticle.matrix
    carModel,                \* carModel !== null
    position,                \* carModel.position
    rotation,                \* carModel.rotation (Euler x, y, z; tied to .quaternion)
    scale,                   \* carModel.scale
    touches,                 \* e.touches: the points now on the screen, <<pageX, pageY>>
    initialDistance,         \* pinch baseline distance
    initialScale,            \* pinch baseline scale
    previousTouchX,          \* rotate baseline
    lastFrame,               \* history: what the most recent XR frame saw
    gesture                  \* history: what the running touch gesture started from

vars == <<session, sessionsStarted, hitTestSource, hitTestSourceRequested,
          requests, endListeners, reticleVisible, reticleMatrix,
          carModel, position, rotation, scale, touches, initialDistance,
          initialScale, previousTouchX, lastFrame, gesture>>

arVars == <<session, sessionsStarted, hitTestSource, hitTestSourceRequested,
            requests, endListeners, reticleVisible, reticleMatrix>>

objVars == <<carModel, position, rotation, scale>>

touchVars == <<touches, initialDistance, initialScale, previousTouchX>>

NoFrame == [session |-> 0, queried |-> 0, results |-> <<>>, threw |-> FALSE, hit |-> IdentityPose]

\* new THREE.Vector3()
ZeroVector == <<<<0, 1>>, <<0, 1>>, <<0, 1>>>>

\* Object3D's default scale
UnitVector == <<<<1, 1>>, <<1, 1>>, <<1, 1>>>>

NoRotate == [on |-> FALSE, x0 |-> 0, moves |-> 0,
             position |-> <<0, 0, 0>>, rotation |-> <<0, 0, 0>>, scale |-> ZeroVector]

NoPinch == [on |-> FALSE, d0 |-> 0, s0 |-> ZeroVector, moves |-> 0]

NoGesture == [rotate |-> NoRotate, pinch |-> NoPinch, xFresh |-> FALSE, dFresh |-> FALSE]

Init ==
    /\ session = 0
    /\ sessionsStarted = 0
    /\ hitTestSource = 0
    /\ hitTestSourceRequested = FALSE
    /\ requests = <<>>
    /\ endListeners = {}
    /\ reticleVisible = FALSE
    /\ reticleMatrix = IdentityPose
    /\ carModel = FALSE
    /\ position = <<0, 0, 0>>
    /\ rotation = <<0, 0, 0>>
    /\ scale = UnitVector
    /\ touches = <<>>
    /\ initialDistance = 0
    /\ initialScale = ZeroVector
    /\ previousTouchX = 0
    /\ lastFrame = NoFrame
    /\ gesture = NoGesture

(* --------------------------- model loading ----------------------------- *)

\* carModel.scale.setScalar(10)
SetScalar(n) == <<<<n, 1>>, <<n, 1>>, <<n, 1>>>>

ModelScale == 10

\* loader.load(..., function (gltf) { carModel = gltf.scene; ... })
LoadModel ==
    /\ ~carModel
    /\ carModel' = TRUE
    /\ scale' = SetScalar(ModelScale)
    /\ UNCHANGED <<position, rotation, lastFrame>>
    /\ UNCHANGED <<arVars, touchVars, gesture>>

(* ------------------------------ sessions ------------------------------- *)

\* ARButton: the browser grants an immersive-ar session
StartSession ==
    /\ session = 0
    /\ sessionsStarted < MaxSessions
    /\ sessionsStarted' = sessionsStarted + 1
    /\ session' = sessionsStarted + 1
    /\ UNCHANGED <<hitTestSource, hitTestSourceRequested, requests, endListeners,
                   reticleVisible, reticleMatrix, lastFrame>>
    /\ UNCHANGED <<objVars, touchVars, gesture>>

\* session.addEventListener('end', function () { ... }): the listener's body
OnSessionEnd(s) ==
    IF s \in endListeners
    THEN /\ hitTestSourceRequested' = FALSE
         /\ hitTestSource' = 0
    ELSE UNCHANGED <<hitTestSourceRequested, hitTestSource>>

\* the browser ends the session and fires its 'end' event
EndSession ==
    /\ session # 0
    /\ session' = 0
    /\ OnSessionEnd(session)
    /\ UNCHANGED <<sessionsStarted, requests, endListeners, reticleVisible,
                   reticleMatrix, lastFrame>>
    /\ UNCHANGED <<objVars, touchVars, gesture>>

(* ------------------------- the two-stage request ----------------------- *)

Pending(r) == r.stage \in {"refspace", "hittest"}

\* session.requestReferenceSpace('viewer').then(...): the first callback
\* runs and issues session.requestHitTestSource
ResolveReferenceSpace(i) ==
    /\ requests[i].stage = "refspace"
    /\ requests' = [requests EXCEPT ![i].stage = "hittest"]
    /\ UNCHANGED <<session, sessionsStarted, hitTestSource, hitTestSourceRequested,
                   endListeners, reticleVisible, reticleMatrix, lastFrame>>
    /\ UNCHANGED <<objVars, touchVars, gesture>>

\* .then(function (source) { hitTestSource = source; })
ResolveHitTestSource(i) ==
    /\ requests[i].stage = "hittest"
    /\ requests' = [requests EXCEPT ![i].stage = "resolved"]
    /\ hitTestSource' = requests[i].session
    /\ UNCHANGED <<session, sessionsStarted, hitTestSourceRequested,
                   endListeners, reticleVisible, reticleMatrix, lastFrame>>
    /\ UNCHANGED <<objVars, touchVars, gesture>>

\* either promise rejects; the code attaches no rejection handler
RejectRequest(i) ==
    /\ Pending(requests[i])
    /\ requests' = [requests EXCEPT ![i].stage = "rejected"]
    /\ UNCHANGED <<session, sessionsStarted, hitTestSource, hitTestSourceRequested,
                   endListeners, reticleVisible, reticleMatrix, lastFrame>>
    /\ UNCHANGED <<objVars, touchVars, gesture>>

(* ------------------------------- render -------------------------------- *)

FirstHit_TakesLast(results) == results[Len(results)]

\* const hit = hitTestResults[0]
FirstHit(results) == results[1]

\* if (hitTestResults.length > 0)
HasHit(results) == Len(results) > 0

RequestHitTestSource_NoLatch ==
    IF hitTestSourceRequested = FALSE
    THEN /\ requests' = Append(requests, [session |-> session, stage |-> "refspace"])
         /\ endListeners' = endListeners \cup {session}
         /\ UNCHANGED hitTestSourceRequested
    ELSE UNCHANGED <<requests, endListeners, hitTestSourceRequested>>

\* if (hitTestSourceRequested === false) { ... }
RequestHitTestSource ==
    IF hitTestSourceRequested = FALSE
    THEN /\ requests' = Append(requests, [session |-> session, stage |-> "refspace"])
         /\ endListeners' = endListeners \cup {session}
         /\ hitTestSourceRequested' = TRUE
    ELSE UNCHANGED <<requests, endListeners, hitTestSourceRequested>>

\* if (hitTestSource) { ... } with the list the frame returns
UpdateReticle(results) ==
    IF HasHit(results)
    THEN /\ reticleVisible' = TRUE
         /\ reticleMatrix' = FirstHit(results)
    ELSE /\ reticleVisible' = FALSE
         /\ UNCHANGED reticleMatrix

\* render(timestamp, frame) with a frame; results is what
\* frame.getHitTestResults returns when it is called
Frame(results) ==
    /\ session # 0
    /\ RequestHitTestSource
    /\ IF hitTestSource # 0
       THEN /\ UpdateReticle(results)
            /\ lastFrame' = [session |-> session, queried |-> hitTestSource,
                             results |-> results, threw |-> FALSE,
                             hit |-> IF Len(results) > 0 THEN results[1] ELSE lastFrame.hit]
       ELSE /\ results = <<>>
            /\ UNCHANGED <<reticleVisible, reticleMatrix>>
            /\ lastFrame' = [session |-> session, queried |-> 0,
                             results |-> <<>>, threw |-> FALSE, hit |-> lastFrame.hit]
    /\ UNCHANGED <<session, sessionsStarted, hitTestSource>>
    /\ UNCHANGED <<objVars, touchVars, gesture>>

\* render with a frame whose getHitTestResults throws: the browser does not
\* know the source in this session (it was made for another one); the
\* exception leaves render before the reticle is touched
FrameThrows ==
    /\ session # 0
    /\ RequestHitTestSource
    /\ hitTestSource # 0
    /\ hitTestSource # session
    /\ lastFrame' = [session |-> session, queried |-> hitTestSource,
                     results |-> <<>>, threw |-> TRUE, hit |-> lastFrame.hit]
    /\ UNCHANGED <<session, sessionsStarted, hitTestSource, reticleVisible, reticleMatrix>>
    /\ UNCHANGED <<objVars, touchVars, gesture>>

(* ------------------------------- select -------------------------------- *)

\* carModel.position.setFromMatrixPosition(reticle.matrix)
SetFromMatrixPosition(m) == m.pos

\* carModel.quaternion.setFromRotationMatrix(reticle.matrix)
SetFromRotationMatrix(m) == m.rot

Select_IgnoresVisibility ==
    /\ session # 0
    /\ IF carModel
       THEN /\ position' = SetFromMatrixPosition(reticleMatrix)
            /\ rotation' = SetFromRotationMatrix(reticleMatrix)
            /\ gesture' = [gesture EXCEPT !.rotate = NoRotate]
       ELSE UNCHANGED <<position, rotation, gesture>>
    /\ UNCHANGED <<carModel, scale, lastFrame>>
    /\ UNCHANGED <<arVars, touchVars>>

\* onSelect: the controller's select event, delivered during a session
Select ==
    /\ session # 0
    /\ IF reticleVisible /\ carModel
       THEN /\ position' = SetFromMatrixPosition(reticleMatrix)
            /\ rotation' = SetFromRotationMatrix(reticleMatrix)
            /\ gesture' = [gesture EXCEPT !.rotate = NoRotate]
       ELSE UNCHANGED <<position, rotation, gesture>>
    /\ UNCHANGED <<carModel, scale, lastFrame>>
    /\ UNCHANGED <<arVars, touchVars>>


(* ------------------------------ gestures ------------------------------- *)

\* the screen points a touch can report, <<pageX, pageY>>
TouchPoints == {<<0, 0>>, <<30, 40>>, <<60, 0>>}

Abs(x) == IF x < 0 THEN -x ELSE x

Min(a, b) == IF a < b THEN a ELSE b

RECURSIVE Gcd(_, _)
Gcd(a, b) == IF b = 0 THEN a ELSE Gcd(b, a % b)

\* the fraction n / d (d > 0) in lowest terms
Frac(n, d) == IF n = 0 THEN <<0, 1>> ELSE <<n \div Gcd(n, d), d \div Gcd(n, d)>>

\* Math.sqrt(dx * dx + dy * dy); the touch points are chosen so that the
\* root is an integer
Distance(a, b) ==
    LET dx == a[1] - b[1]
        dy == a[2] - b[2]
        sq == dx * dx + dy * dy
    IN  CHOOSE r \in 0..(Abs(dx) + Abs(dy)) : r * r <= sq /\ sq < (r + 1) * (r + 1)

\* initialScale.clone().multiplyScalar(currentDistance / initialDistance)
MultiplyScalar(v, n, d) == [i \in 1..3 |-> Frac(v[i][1] * n, v[i][2] * d)]

InScaleRange(v) == \A i \in 1..3 : v[i][1] <= MaxScaleNum /\ v[i][2] <= MaxScaleDen

\* carModel.rotation.y += deltaX * 0.005, in milliradians per pixel
RotationSpeed == 5

\* carModel.rotation.y += 0.3, in milliradians
RotateStep == 300

AddYaw_Overwrites(r, d) == [r EXCEPT ![2] = d]

AddYaw_TiltsToo(r, d) == [r EXCEPT ![2] = @ + d, ![1] = @ + d]

\* rotation.y += d
AddYaw(r, d) == [r EXCEPT ![2] = @ + d]

\* window.addEventListener('touchstart', ...): a finger lands at p
TouchStart(p) ==
    /\ Len(touches) < MaxTouches
    /\ LET t == Append(touches, p)
       IN  /\ touches' = t
           /\ IF Len(t) = 2 /\ carModel
              THEN /\ initialDistance' = Distance(t[1], t[2])
                   /\ initialScale' = scale
              ELSE UNCHANGED <<initialDistance, initialScale>>
           /\ IF Len(t) = 1 /\ carModel
              THEN previousTouchX' = t[1][1]
              ELSE UNCHANGED previousTouchX
           /\ gesture' =
                 [rotate |-> IF Len(t) = 1 /\ carModel
                             THEN [on |-> TRUE, x0 |-> p[1], moves |-> 0,
                                   position |-> position, rotation |-> rotation,
                                   scale |-> scale]
                             ELSE NoRotate,
                  pinch  |-> IF Len(t) = 2 /\ carModel
                             THEN [on |-> TRUE, d0 |-> Distance(t[1], t[2]),
                                   s0 |-> scale, moves |-> 0]
                             ELSE gesture.pinch,
                  xFresh |-> (Len(t) = 1 /\ carModel),
                  dFresh |-> (Len(t) = 2 /\ carModel)]
    /\ UNCHANGED <<objVars, arVars, lastFrame>>

NewScale_Compounds(t) ==
    MultiplyScalar(scale, Distance(t[1], t[2]), initialDistance)

NewScale_OnlyOutsideAR(t) ==
    IF session = 0
    THEN MultiplyScalar(initialScale, Distance(t[1], t[2]), initialDistance)
    ELSE scale

\* const newScale = initialScale.clone().multiplyScalar(scaleFactor), with
\* scaleFactor = currentDistance / initialDistance
NewScale(t) ==
    MultiplyScalar(initialScale, Distance(t[1], t[2]), initialDistance)

\* window.addEventListener('touchmove', ...): finger i moves to p
TouchMove(i, p) ==
    /\ i \in 1..Len(touches)
    /\ p # touches[i]
    /\ LET t == [touches EXCEPT ![i] = p]
           pinching == Len(t) = 2 /\ carModel /\ initialDistance > 0
           rotating == Len(t) = 1 /\ carModel
           newScale == NewScale(t)
           deltaX == t[1][1] - previousTouchX
           newRotation == AddYaw(rotation, deltaX * RotationSpeed)
       IN  /\ touches' = t
           /\ IF pinching
              THEN /\ InScaleRange(newScale)
                   /\ scale' = newScale
              ELSE UNCHANGED scale
           /\ IF rotating
              THEN /\ Abs(newRotation[2]) <= MaxYaw
                   /\ previousTouchX' = t[1][1]
                   /\ rotation' = newRotation
              ELSE UNCHANGED <<previousTouchX, rotation>>
           /\ gesture' =
                 [gesture EXCEPT
                    !.rotate.moves = IF gesture.rotate.on THEN Min(@ + 1, 2) ELSE @,
                    !.pinch.moves = IF gesture.pinch.on /\ Len(t) = 2 THEN Min(@ + 1, 2) ELSE @,
                    !.xFresh = IF rotating THEN TRUE ELSE @]
    /\ UNCHANGED <<carModel, position, initialDistance, initialScale, lastFrame>>
    /\ UNCHANGED arVars

RemoveAt(q, i) == [j \in 1..(Len(q) - 1) |-> IF j < i THEN q[j] ELSE q[j + 1]]

\* finger i leaves the screen; no touchend / touchcancel listener exists
TouchEnd(i) ==
    /\ i \in 1..Len(touches)
    /\ touches' = RemoveAt(touches, i)
    /\ gesture' = [gesture EXCEPT !.rotate = NoRotate, !.xFresh = FALSE, !.dFresh = FALSE]
    /\ UNCHANGED <<initialDistance, initialScale, previousTouchX, lastFrame>>
    /\ UNCHANGED <<objVars, arVars>>

\* the click listeners of #rotateLeft (+0.3) and #rotateRight (-0.3)
RotateBy(step) ==
    /\ carModel
    /\ Abs(rotation[2] + step) <= MaxYaw
    /\ rotation' = AddYaw(rotation, step)
    /\ gesture' = [gesture EXCEPT !.rotate = NoRotate]
    /\ UNCHANGED <<carModel, position, scale, lastFrame>>
    /\ UNCHANGED <<arVars, touchVars>>

RotateLeft == RotateBy(RotateStep)

RotateRight == RotateBy(-RotateStep)

(* ---------------------------- specification ---------------------------- *)

\* the AR placement machine: sessions, the acquisition, frames, select
NextPlacement ==
    \/ LoadModel
    \/ StartSession
    \/ EndSession
    \/ \E i \in 1..Len(requests) : ResolveReferenceSpace(i)
    \/ \E i \in 1..Len(requests) : ResolveHitTestSource(i)
    \/ \E i \in 1..Len(requests) : RejectRequest(i)
    \/ \E results \in ResultLists : Frame(results)
    \/ FrameThrows
    \/ Select

SpecPlacement == Init /\ [][NextPlacement]_vars

\* the gesture controller: touches and the rotate buttons
NextGesture ==
    \/ LoadModel
    \/ \E p \in TouchPoints : TouchStart(p)
    \/ \E i \in 1..MaxTouches, p \in TouchPoints : TouchMove(i, p)
    \/ \E i \in 1..MaxTouches : TouchEnd(i)
    \/ RotateLeft
    \/ RotateRight

SpecGesture == Init /\ [][NextGesture]_vars

\* a platform that settles a session's promises only while it is live
ResolveReferenceSpaceLive(i) ==
    /\ requests[i].session = session
    /\ ResolveReferenceSpace(i)

ResolveHitTestSourceLive(i) ==
    /\ requests[i].session = session
    /\ ResolveHitTestSource(i)

RejectRequestLive(i) ==
    /\ requests[i].session = session
    /\ RejectRequest(i)

NextPlacementLive ==
    \/ LoadModel
    \/ StartSession
    \/ EndSession
    \/ \E i \in 1..Len(requests) : ResolveReferenceSpaceLive(i)
    \/ \E i \in 1..Len(requests) : ResolveHitTestSourceLive(i)
    \/ \E i \in 1..Len(requests) : RejectRequestLive(i)
    \/ \E results \in ResultLists : Frame(results)
    \/ Select

SpecPlacementLive == Init /\ [][NextPlacementLive]_vars

Next == NextPlacement \/ NextGesture

Spec == Init /\ [][Next]_vars

\* the screen points the composition's touches report
ComposedPoints == {<<0, 0>>, <<30, 40>>}

\* frames as the composition sees them: no hit, or one hit
SingleResults == {r \in ResultLists : Len(r) <= 1}

\* ARButton, while the composition still follows sessions
StartSessionComposed ==
    /\ sessionsStarted < MaxSessionsComposed
    /\ StartSession

\* placement and gestures together: every event of main.js, on a platform
\* that settles promises during their session
NextComposed ==
    \/ LoadModel
    \/ StartSessionComposed
    \/ EndSession
    \/ \E i \in 1..Len(requests) : ResolveReferenceSpaceLive(i)
    \/ \E i \in 1..Len(requests) : ResolveHitTestSourceLive(i)
    \/ \E i \in 1..Len(requests) : RejectRequestLive(i)
    \/ \E results \in SingleResults : Frame(results)
    \/ Select
    \/ \E p \in ComposedPoints : TouchStart(p)
    \/ \E i \in 1..MaxTouches, p \in ComposedPoints : TouchMove(i, p)
    \/ \E i \in 1..MaxTouches : TouchEnd(i)
    \/ RotateLeft
    \/ RotateRight

SpecComposed == Init /\ [][NextComposed]_vars

TypeOK ==
    /\ session \in 0..MaxSessions
    /\ hitTestSource \in 0..MaxSessions
    /\ hitTestSourceRequested \in BOOLEAN
    /\ reticleVisible \in BOOLEAN
    /\ reticleMatrix \in HitPoses \cup {IdentityPose}

(* ------------------------- placement properties ------------------------ *)

FrameSeen == lastFrame.session # 0

\* C1: after each processed frame the reticle is visible if and only if
\* that frame's hit-test result list was non-empty; a frame processed
\* without a hit-test source has no result and must leave it invisible.
C1_VisibleIffHit ==
    FrameSeen => (reticleVisible <=> Len(lastFrame.results) > 0)

\* C2: the reticle's pose is the first result of the most recent frame
\* that returned a result (so it is that pose whenever the reticle is
\* visible, and stays stale while invisible), and a frame whose query
\* returned the empty list leaves the reticle invisible.
C2_ReticlePose ==
    /\ reticleMatrix = lastFrame.hit
    /\ reticleVisible => reticleMatrix = lastFrame.hit
    /\ (lastFrame.queried # 0 /\ ~lastFrame.threw /\ lastFrame.results = <<>>)
           => ~reticleVisible

C2_Witness ==
    /\ reticleVisible
    /\ Len(lastFrame.results) = 2
    /\ lastFrame.results[1] # lastFrame.results[2]
    /\ reticleMatrix = lastFrame.results[1]

C2_WitnessStale ==
    /\ ~reticleVisible
    /\ lastFrame.queried # 0
    /\ reticleMatrix # IdentityPose

\* C3: a select writes the object's pose exactly when the reticle is
\* visible and the model is loaded; then position and orientation become
\* the reticle's and the scale is kept; otherwise position, orientation
\* and scale are all left as they were.
C3_SelectCommits ==
    [][Select =>
         IF reticleVisible /\ carModel
         THEN /\ position' = reticleMatrix.pos
              /\ rotation' = reticleMatrix.rot
              /\ scale' = scale
         ELSE /\ position' = position
              /\ rotation' = rotation
              /\ scale' = scale]_vars

C3_Witness ==
    /\ carModel
    /\ reticleVisible
    /\ position # <<0, 0, 0>>
    /\ position = reticleMatrix.pos
    /\ rotation = reticleMatrix.rot

\* C4: no frame queries a hit-test source that was made for another
\* session than the frame's own.
C4_NoStaleSourceQueried ==
    lastFrame.queried # 0 => lastFrame.queried = lastFrame.session

IssuedFor(s) == {i \in 1..Len(requests) : requests[i].session = s}

PendingRequests == {i \in 1..Len(requests) : Pending(requests[i])}

\* C5 (original form): the acquisition is issued at most once per session and
\* at no time are two acquisitions pending together.
C5_NoDuplicateRequests ==
    /\ \A s \in 1..MaxSessions : Cardinality(IssuedFor(s)) <= 1
    /\ Cardinality(PendingRequests) <= 1

\* C5 (amended): the acquisition is issued at most once per session, so
\* no two requests of one session are ever pending together; a request
\* that an ended session left unsettled may still be pending when the
\* next session issues its own.
C5_OncePerSession ==
    \A s \in 1..MaxSessions :
        /\ Cardinality(IssuedFor(s)) <= 1
        /\ Cardinality(IssuedFor(s) \cap PendingRequests) <= 1

C5_Witness ==
    /\ Len(requests) = 2
    /\ Pending(requests[1])
    /\ requests[2].stage = "resolved"
    /\ hitTestSourceRequested
    /\ lastFrame.session = 2
    /\ lastFrame.queried = 2

EndStep == session # 0 /\ session' = 0

FirstFrameStep == lastFrame'.session # lastFrame.session

\* C6: every session end leaves the latch false and the source null, the
\* first frame of a session issues one fresh acquisition and registers the
\* end listener, and no other step issues an acquisition.
C6_EndClearsAndReRequests ==
    [][/\ EndStep => (hitTestSourceRequested' = FALSE /\ hitTestSource' = 0)
       /\ FirstFrameStep =>
              /\ Len(requests') = Len(requests) + 1
              /\ requests'[Len(requests')] = [session |-> session, stage |-> "refspace"]
              /\ session \in endListeners'
              /\ hitTestSourceRequested'
       /\ Len(requests') # Len(requests) => FirstFrameStep]_vars

FreshHit == lastFrame.session = session /\ Len(lastFrame.results) > 0

\* C7: a select only ever commits the first hit of the most recent frame
\* of the current session; when that frame found no surface (or the
\* current session has had no frame) the select commits nothing.
C7_NoStalePlacement ==
    [][Select =>
         /\ (position' # position \/ rotation' # rotation) =>
                /\ FreshHit
                /\ position' = lastFrame.results[1].pos
                /\ rotation' = lastFrame.results[1].rot
         /\ ~FreshHit => (position' = position /\ rotation' = rotation)]_vars


(* -------------------------- gesture properties ------------------------- *)

PinchMoveStep == Len(touches) = 2 /\ Len(touches') = 2 /\ touches' # touches

RotateMoveStep == Len(touches) = 1 /\ Len(touches') = 1 /\ touches' # touches

C8_WitnessZero ==
    /\ gesture.pinch.on
    /\ gesture.pinch.moves > 0
    /\ gesture.pinch.d0 = 0
    /\ Len(touches) = 2
    /\ Distance(touches[1], touches[2]) > 0

\* C9: during a one-finger gesture that started on the loaded model (a
\* touch-start followed only by one-finger moves) the yaw is the yaw at
\* the start plus 0.005 rad per pixel between the finger's start x and
\* its current x, and position, scale, pitch and roll are as at the start.
C9_RotateYaw ==
    gesture.rotate.on =>
        /\ Len(touches) = 1
        /\ rotation[2] = gesture.rotate.rotation[2] + 5 * (touches[1][1] - gesture.rotate.x0)
        /\ rotation[1] = gesture.rotate.rotation[1]
        /\ rotation[3] = gesture.rotate.rotation[3]
        /\ position = gesture.rotate.position
        /\ scale = gesture.rotate.scale

C9_Witness ==
    /\ gesture.rotate.on
    /\ gesture.rotate.moves = 2
    /\ touches[1][1] # gesture.rotate.x0
    /\ rotation[2] = gesture.rotate.rotation[2] + 5 * (touches[1][1] - gesture.rotate.x0)

\* C10: no touch-move computes a yaw delta from a previous-x, or a scale
\* ratio from a baseline distance and scale, recorded before the most
\* recent change of the number of fingers.
C10_FreshBaselines ==
    [][/\ (RotateMoveStep /\ carModel) => gesture.xFresh
       /\ (PinchMoveStep /\ carModel /\ initialDistance > 0) => gesture.dFresh]_vars


(* ------------------------ composition properties ----------------------- *)

StepRotateStep == RotateLeft \/ RotateRight

\* C11: once the object exists, its position changes only in a select
\* step, which writes position and orientation together from the reticle;
\* its orientation otherwise changes only by an increment of the yaw,
\* 0.005 rad per pixel of the move's delta in a one-finger move and
\* +0.3 or -0.3 rad in a step-rotate click; its scale changes only in a
\* two-finger move.
C11_ObjectWrites ==
    [][carModel =>
         /\ position' # position =>
                /\ Select
                /\ position' = reticleMatrix.pos
                /\ rotation' = reticleMatrix.rot
         /\ rotation' # rotation =>
                \/ /\ Select
                   /\ position' = reticleMatrix.pos
                   /\ rotation' = reticleMatrix.rot
                \/ /\ RotateMoveStep
                   /\ rotation' = <<rotation[1],
                                    rotation[2] + 5 * (touches'[1][1] - previousTouchX),
                                    rotation[3]>>
                \/ /\ StepRotateStep
                   /\ \/ rotation' = <<rotation[1], rotation[2] + 300, rotation[3]>>
                      \/ rotation' = <<rotation[1], rotation[2] - 300, rotation[3]>>
         /\ scale' # scale => PinchMoveStep]_vars

\* placed at PoseB, then turned by moves and clicks, and pinched
C11_Witness ==
    /\ carModel
    /\ position = PoseB.pos
    /\ rotation = <<PoseB.rot[1], PoseB.rot[2] + 150 + 300, PoseB.rot[3]>>
    /\ scale # SetScalar(ModelScale)


\* the live session's acquisition has not resolved
Unresolved ==
    /\ session # 0
    /\ \A i \in IssuedFor(session) : requests[i].stage # "resolved"

\* C12: while the request of the live session stays unresolved, the
\* hit-test source is null, the frames of the session make no hit-test
\* query and raise no error, the reticle is not visible, a select
\* commits no pose, and the request is not issued a second time.
C12_NoTrackingWhileUnresolved ==
    [][(Unresolved /\ Unresolved' /\ session' = session) =>
         /\ hitTestSource' = 0
         /\ ~reticleVisible'
         /\ lastFrame'.session = session =>
                (lastFrame'.queried = 0 /\ ~lastFrame'.threw)
         /\ Select => (position' = position /\ rotation' = rotation)
         /\ Len(requests') > Len(requests) => IssuedFor(session) = {}]_vars

GestureState == <<position, rotation, scale, initialDistance, initialScale, previousTouchX>>

PlacementState == <<session, sessionsStarted, hitTestSource, hitTestSourceRequested,
                    requests, endListeners, reticleVisible, reticleMatrix, lastFrame>>

TouchStartStep == Len(touches') = Len(touches) + 1

TouchMoveStep == Len(touches') = Len(touches) /\ touches' # touches

\* what a touchstart leaves behind, from the touches and the object alone
AfterTouchStart ==
    LET t == touches'
    IN  /\ <<position', rotation', scale'>> = <<position, rotation, scale>>
        /\ <<initialDistance', initialScale'>> =
              IF Len(t) = 2 /\ carModel
              THEN <<Distance(t[1], t[2]), scale>>
              ELSE <<initialDistance, initialScale>>
        /\ previousTouchX' = IF Len(t) = 1 /\ carModel THEN t[1][1] ELSE previousTouchX

\* what a touchmove leaves behind, from the touches, the object and the
\* baselines alone
AfterTouchMove ==
    LET t == touches'
    IN  /\ position' = position
        /\ <<initialDistance', initialScale'>> = <<initialDistance, initialScale>>
        /\ scale' =
              IF Len(t) = 2 /\ carModel /\ initialDistance > 0
              THEN [i \in 1..3 |-> Frac(initialScale[i][1] * Distance(t[1], t[2]),
                                        initialScale[i][2] * initialDistance)]
              ELSE scale
        /\ rotation' =
              IF Len(t) = 1 /\ carModel
              THEN <<rotation[1], rotation[2] + 5 * (t[1][1] - previousTouchX), rotation[3]>>
              ELSE rotation
        /\ previousTouchX' = IF Len(t) = 1 /\ carModel THEN t[1][1] ELSE previousTouchX

\* what a click on a rotate button leaves behind
AfterStepRotate ==
    /\ <<position', scale', touches', initialDistance', initialScale', previousTouchX'>>
          = <<position, scale, touches, initialDistance, initialScale, previousTouchX>>
    /\ \/ rotation' = <<rotation[1], rotation[2] + 300, rotation[3]>>
       \/ rotation' = <<rotation[1], rotation[2] - 300, rotation[3]>>

\* C13: a touch-start, touch-move or step-rotate has the effect its
\* touches, the object and the baselines determine, whatever the session,
\* latch, source and reticle are, and leaves those as they were; a step
\* that changes the session, latch, source, requests or reticle (a frame,
\* a resolution, a session end) leaves the object's position, orientation
\* and scale, the touches and the gesture baselines as they were.
C13_Independent ==
    [][/\ TouchStartStep => (AfterTouchStart /\ PlacementState' = PlacementState)
       /\ TouchMoveStep => (AfterTouchMove /\ PlacementState' = PlacementState)
       /\ StepRotateStep => (AfterStepRotate /\ PlacementState' = PlacementState)
       /\ PlacementState' # PlacementState =>
              (GestureState' = GestureState /\ touches' = touches)]_vars

\* a one-finger gesture run inside the session, after a placement, with
\* the reticle tracking
C13_Witness ==
    /\ session = 1
    /\ sessionsStarted = 1
    /\ reticleVisible
    /\ lastFrame.session = session
    /\ gesture.rotate.on
    /\ gesture.rotate.moves > 0
    /\ gesture.rotate.position = PoseA.pos
    /\ rotation # gesture.rotate.rotation

\* the same gesture with no session at all
C13_WitnessNoSession ==
    /\ sessionsStarted = 0
    /\ gesture.rotate.on
    /\ gesture.rotate.moves > 0
    /\ rotation # gesture.rotate.rotation

=============================================================================
